---------------------------- MODULE Spec2Model ----------------------------
(* Model of the AECyberTV WhatsApp bot (src/app.py): the /webhook handler,  *)
(* its SQLite tables (users, leads, orders) and its text matching.          *)
(*                                                                          *)
(* Text is a sequence of Unicode code points, as a Python str is, so that   *)
(* lower(), strip(), replace(), `in` and the two regular expressions are    *)
(* computed as the code computes them.  Codes("buy kids") is notation for   *)
(* the code points of an ASCII literal; Arabic literals are written out.    *)
(*                                                                          *)
(* Not modelled: the timestamp columns (first_seen_utc, last_seen_utc,      *)
(* created_utc), the autoincrement ids (a record's id is its position in    *)
(* its table), the text of the message constants (a reply is the sequence   *)
(* of the constants it is built from) and the GET /health route.            *)
EXTENDS Integers, Sequences, FiniteSets, TLC

VARIABLES users,     \* table users: wa_number -> [lang, state, pending_plan]
          leads,     \* table leads, in insertion order
          orders,    \* table orders, in insertion order
          inflight,  \* the webhook requests being handled: a set of frames
          turns,     \* number of POST /webhook requests received so far
          conv       \* per sender, the completed turns: <<[kw, st], ...>>

vars == <<users, leads, orders, inflight, turns, conv>>

---------------------------------------------------------------------------
(* Bounds *)

MaxTurns == 3
MaxConcurrent == 2

---------------------------------------------------------------------------
(* Python str primitives over code-point sequences *)

Ascii32 == " !"
Ascii43 == "+,-./0123456789:;<=>?@ABCDEFGHIJKLMNOPQRSTUVWXYZ"
Ascii97 == "abcdefghijklmnopqrstuvwxyz"

InTab(tab, c) == \E i \in 1..Len(tab) : SubSeq(tab, i, i) = c
PosTab(tab, c) == CHOOSE i \in 1..Len(tab) : SubSeq(tab, i, i) = c

\* ord(c) for the one-character string c
Ord(c) ==
    IF InTab(Ascii97, c) THEN 96 + PosTab(Ascii97, c)
    ELSE IF InTab(Ascii43, c) THEN 42 + PosTab(Ascii43, c)
    ELSE 31 + PosTab(Ascii32, c)

\* the code points of the ASCII literal s
Codes(s) == [i \in 1..Len(s) |-> Ord(SubSeq(s, i, i))]

SetMin(S) == CHOOSE x \in S : \A y \in S : x <= y
SetMax(S) == CHOOSE x \in S : \A y \in S : x >= y

\* str.isspace() on the code points below U+0100
IsSpace(c) == c \in {9, 10, 11, 12, 13, 28, 29, 30, 31, 32, 133, 160}

\* str.strip()
Strip(t) ==
    LET keep == {i \in 1..Len(t) : ~IsSpace(t[i])}
    IN  IF keep = {} THEN << >> ELSE SubSeq(t, SetMin(keep), SetMax(keep))

\* str.lower(): ASCII capitals fold; Arabic letters and digits have no case
Lower(t) == [i \in 1..Len(t) |-> IF t[i] \in 65..90 THEN t[i] + 32 ELSE t[i]]

\* a in t  (substring containment)
Contains(t, a) ==
    \E i \in 0..(Len(t) - Len(a)) : SubSeq(t, i + 1, i + Len(a)) = a

\* t.startswith(p)
StartsWith(t, p) == Len(t) >= Len(p) /\ SubSeq(t, 1, Len(p)) = p

\* t.replace(old, ""): every non-overlapping occurrence, left to right
RECURSIVE Remove(_, _)
Remove(t, old) ==
    IF Len(t) < Len(old) THEN t
    ELSE IF SubSeq(t, 1, Len(old)) = old
         THEN Remove(SubSeq(t, Len(old) + 1, Len(t)), old)
         ELSE <<t[1]>> \o Remove(Tail(t), old)

\* AR_REGEX.search(text): a character in U+0600..U+06FF
is_arabic(t) == \E i \in 1..Len(t) : t[i] \in 1536..1791

\* \d on a str pattern: a Unicode decimal digit (ASCII, Arabic-Indic,
\* Extended Arabic-Indic are the ones in the modelled alphabet)
IsDigit(c) == c \in (48..57) \cup (1632..1641) \cup (1776..1785)

\* re.search(r"@.+\.", t): '@', at least one non-newline character, '.'
EmailLike(t) ==
    \E i \in 1..Len(t) : \E k \in (i + 2)..Len(t) :
        /\ t[i] = 64
        /\ t[k] = 46
        /\ \A j \in (i + 1)..(k - 1) : t[j] # 10

\* re.search(r"\+?\d{7,}", t): seven consecutive digits somewhere
PhoneLike(t) ==
    \E i \in 1..(Len(t) - 6) : \A j \in i..(i + 6) : IsDigit(t[j])

---------------------------------------------------------------------------
(* Keyword tuples of the router and the package catalog *)

\* "start", "hi", "hello", "مرحبا", "السلام عليكم", "ابدأ", "menu", "القائمة"
MENU_KEYWORDS ==
    { Codes("start"), Codes("hi"), Codes("hello"),
      <<1605, 1585, 1581, 1576, 1575>>,
      <<1575, 1604, 1587, 1604, 1575, 1605, 32, 1593, 1604, 1610, 1603, 1605>>,
      <<1575, 1576, 1583, 1571>>,
      Codes("menu"),
      <<1575, 1604, 1602, 1575, 1574, 1605, 1577>> }

\* "3", "٣", "support", "دعم", "الدعم", "الدعم الفني"
SUPPORT_KEYWORDS ==
    { Codes("3"), <<1635>>, Codes("support"),
      <<1583, 1593, 1605>>,
      <<1575, 1604, 1583, 1593, 1605>>,
      <<1575, 1604, 1583, 1593, 1605, 32, 1575, 1604, 1601, 1606, 1610>> }

\* "2", "٢", "trial", "free", "free trial", "تجربة", "تجربة مجانية"
TRIAL_KEYWORDS ==
    { Codes("2"), <<1634>>, Codes("trial"), Codes("free"), Codes("free trial"),
      <<1578, 1580, 1585, 1576, 1577>>,
      <<1578, 1580, 1585, 1576, 1577, 32, 1605, 1580, 1575, 1606, 1610, 1577>> }

\* "1", "١", "offers", "العروض"
OFFERS_KEYWORDS ==
    { Codes("1"), <<1633>>, Codes("offers"),
      <<1575, 1604, 1593, 1585, 1608, 1590>> }

\* the keys of PLAN_KEYWORDS in insertion (= iteration) order
PlanOrder == <<"premium", "executive", "casual", "kids">>

Plans == {PlanOrder[i] : i \in 1..Len(PlanOrder)}

\* PLAN_KEYWORDS[p]["aliases"]
PLAN_KEYWORDS ==
    [p \in Plans |->
        CASE p = "premium" ->
               { Codes("premium"),
                 <<1576, 1585, 1610, 1605, 1610, 1608, 1605>>,
                 <<1576, 1585, 1605, 1610, 1608, 1605>>,
                 <<1576, 1585, 32, 1610, 1605, 1610, 1605>> }
          [] p = "executive" ->
               { Codes("executive"),
                 <<1575, 1603, 1586, 1603, 1610, 1608, 1578, 1610, 1601>>,
                 <<1573, 1603, 1586, 1603, 1610, 1608, 1578, 1610, 1601>>,
                 <<1578, 1606, 1601, 1610, 1584, 1610>> }
          [] p = "casual" ->
               { Codes("casual"),
                 <<1603, 1575, 1580, 1608, 1575, 1604>>,
                 <<1593, 1575, 1583, 1610>> }
          [] p = "kids" ->
               { Codes("kids"),
                 <<1603, 1610, 1583, 1586>>,
                 <<1571, 1591, 1601, 1575, 1604>>,
                 <<1575, 1591, 1601, 1575, 1604>> }]

\* the keys of PLAN_PAY_URL, as text
PLAN_PAY_URL_KEYS == [p \in Plans |-> Codes(p)]

\* Python None, as a column value and as "no plan"
None == "None"

\* the first key of PLAN_KEYWORDS, in iteration order, that is in hits;
\* None when the loop ends without a break
FirstPlan(hits) ==
    LET at == {i \in 1..Len(PlanOrder) : PlanOrder[i] \in hits}
    IN  IF at = {} THEN None ELSE PlanOrder[SetMin(at)]

\* the package-choice loop without its break: the last plan that matches
ChoosePlanNoBreak(body) ==
    LET hits == {p \in Plans :
                    \/ body \in PLAN_KEYWORDS[p]
                    \/ \E alias \in PLAN_KEYWORDS[p] : Contains(body, alias)}
        at == {i \in 1..Len(PlanOrder) : PlanOrder[i] \in hits}
    IN  IF at = {} THEN None ELSE PlanOrder[SetMax(at)]

\* the package-choice loop: exact alias or an alias contained in body
ChoosePlan(body) ==
    FirstPlan({p \in Plans :
                  \/ body \in PLAN_KEYWORDS[p]
                  \/ \E alias \in PLAN_KEYWORDS[p] : Contains(body, alias)})

\* the buy command: remove "buy ", strip, exact alias, else a key of PLAN_PAY_URL
BuyPlan(body) ==
    LET plan == Strip(Remove(body, Codes("buy ")))
        normalized == FirstPlan({p \in Plans : plan \in PLAN_KEYWORDS[p]})
    IN  IF normalized # None THEN normalized
        ELSE FirstPlan({p \in Plans : plan = PLAN_PAY_URL_KEYS[p]})

---------------------------------------------------------------------------
(* Replies: a message is the sequence of the constants it is built from *)

Other(lang) == IF lang = "ar" THEN "en" ELSE "ar"

Part(c, l) == [c |-> c, l |-> l, p |-> "-"]

PlanPart(c, l, p) == [c |-> c, l |-> l, p |-> p]

\* f"{WELCOME_x}\n—\n{WELCOME_y}"
WelcomeMsg(lang) ==
    <<Part("WELCOME", lang), Part("SEP", "-"), Part("WELCOME", Other(lang))>>

SupportPromptMsg(lang) == <<Part("SUPPORT_PROMPT", lang)>>

SupportThanksMsg(lang) == <<Part("SUPPORT_THANKS", lang)>>

TrialMsg(lang) == <<Part("TRIAL", lang)>>

\* the literal "✅ Received. ... ✅ تم الاستلام. ..."
TrialReceivedMsg == <<Part("TRIAL_RECEIVED", "en"), Part("TRIAL_RECEIVED", "ar")>>

\* "\n".join(DESC[premium], DESC[executive], DESC[casual], DESC[kids], CHOOSE_PLAN)
OffersMsg(lang) ==
    [i \in 1..Len(PlanOrder) |-> PlanPart("DESC", lang, PlanOrder[i])]
        \o <<Part("CHOOSE_PLAN", lang)>>

ChoosePlanMsg(lang) == <<Part("CHOOSE_PLAN", lang)>>

\* DESC[plan] + "Pay here: " + pay_url + "After payment, ..."
PayMsg(lang, plan) ==
    <<PlanPart("DESC", lang, plan), Part("PAY_HERE", lang),
      PlanPart("PLAN_PAY_URL", "-", plan), Part("AFTER_PAYMENT", lang)>>

FallbackMsg(lang) == <<Part("FALLBACK", lang)>>

---------------------------------------------------------------------------
(* The router: lines 307-414 of webhook(), as the calls the turn will make *)

SetState(state, pending_plan) ==
    [op |-> "set_user_state", state |-> state, pending_plan |-> pending_plan]

SaveLead(contact, source) ==
    [op |-> "save_lead", contact |-> contact, source |-> source]

SaveOrder(plan, status) ==
    [op |-> "save_order", plan |-> plan, status |-> status]

Notify(tag) == [op |-> "notify_admin", tag |-> tag]

Send(msg) == [op |-> "send_whatsapp", body |-> msg]

\* mutant: the reset of the state is forgotten
MenuBranchNoReset(lang) == <<Send(WelcomeMsg(lang))>>

\* lines 308-311
MenuBranch(lang) == <<SetState(None, None), Send(WelcomeMsg(lang))>>

\* lines 314-317
SupportBranch(lang) ==
    <<SetState("support_open", None), Send(SupportPromptMsg(lang))>>

\* mutant: the lower-cased body is stored instead of body_raw
SupportIssueBranchLowered(lang, body_raw) ==
    <<SaveLead(Lower(body_raw), "support"), Notify("SUPPORT"),
      SetState(None, None), Send(SupportThanksMsg(lang))>>

\* lines 319-325
SupportIssueBranch(lang, body_raw) ==
    <<SaveLead(body_raw, "support"), Notify("SUPPORT"),
      SetState(None, None), Send(SupportThanksMsg(lang))>>

\* lines 328-331
TrialBranch(lang) ==
    <<SetState("awaiting_trial_contact", None), Send(TrialMsg(lang))>>

\* mutant: a text without a contact falls through to the fallback reply
TrialContactBranchFallThrough(lang, body_raw) ==
    IF EmailLike(body_raw) \/ PhoneLike(body_raw)
    THEN <<SaveLead(body_raw, "trial"), Notify("TRIAL LEAD"),
           SetState(None, None), Send(TrialReceivedMsg)>>
    ELSE <<Send(FallbackMsg(lang))>>

\* lines 333-346
TrialContactBranch(lang, body_raw) ==
    IF EmailLike(body_raw) \/ PhoneLike(body_raw)
    THEN <<SaveLead(body_raw, "trial"), Notify("TRIAL LEAD"),
           SetState(None, None), Send(TrialReceivedMsg)>>
    ELSE <<Send(TrialMsg(lang))>>

\* mutant: the offers are shown but the state is not written
OffersBranchNoState(lang) == <<Send(OffersMsg(lang))>>

\* lines 349-357
OffersBranch(lang) ==
    <<Send(OffersMsg(lang)), SetState("awaiting_package_choice", None)>>

\* mutant: an unknown package name drops the sender back to the menu level
PackageChoiceBranchReset(lang, body) ==
    LET chosen == ChoosePlan(body)
    IN  IF chosen # None
        THEN <<SetState(None, chosen), SaveOrder(chosen, "initiated"),
               Notify("ORDER STARTED"), Send(PayMsg(lang, chosen))>>
        ELSE <<SetState(None, None), Send(ChoosePlanMsg(lang))>>

\* lines 359-381
PackageChoiceBranch(lang, body) ==
    LET chosen == ChoosePlan(body)
    IN  IF chosen # None
        THEN <<SetState(None, chosen), SaveOrder(chosen, "initiated"),
               Notify("ORDER STARTED"), Send(PayMsg(lang, chosen))>>
        ELSE <<Send(ChoosePlanMsg(lang))>>

\* the buy branch without its admin alert
BuyBranchNoNotify(lang, body) ==
    LET normalized == BuyPlan(body)
    IN  IF normalized # None
        THEN <<SaveOrder(normalized, "initiated"), Send(PayMsg(lang, normalized))>>
        ELSE <<Send(ChoosePlanMsg(lang))>>

\* lines 384-407
BuyBranch(lang, body) ==
    LET normalized == BuyPlan(body)
    IN  IF normalized # None
        THEN <<SaveOrder(normalized, "initiated"), Notify("ORDER STARTED"),
               Send(PayMsg(lang, normalized))>>
        ELSE <<Send(ChoosePlanMsg(lang))>>

\* mutant: the fallback also resets the conversation
FallbackBranchReset(lang) == <<SetState(None, None), Send(FallbackMsg(lang))>>

\* lines 410-414
FallbackBranch(lang) == <<Send(FallbackMsg(lang))>>

\* mutant: the open support conversation is tested before the support keywords
RouteIssueFirst(state, lang, body_raw) ==
    LET body == Lower(body_raw)
    IN  IF body \in MENU_KEYWORDS THEN MenuBranch(lang)
        ELSE IF state = "support_open" THEN SupportIssueBranch(lang, body_raw)
        ELSE IF body \in SUPPORT_KEYWORDS THEN SupportBranch(lang)
        ELSE IF body \in TRIAL_KEYWORDS THEN TrialBranch(lang)
        ELSE IF state = "awaiting_trial_contact"
             THEN TrialContactBranch(lang, body_raw)
        ELSE IF body \in OFFERS_KEYWORDS THEN OffersBranch(lang)
        ELSE IF state = "awaiting_package_choice"
             THEN PackageChoiceBranch(lang, body)
        ELSE IF StartsWith(body, Codes("buy ")) THEN BuyBranch(lang, body)
        ELSE FallbackBranch(lang)

\* the if-chain of lines 305-414, in its order
Route(state, lang, body_raw) ==
    LET body == Lower(body_raw)
    IN  IF body \in MENU_KEYWORDS THEN MenuBranch(lang)
        ELSE IF body \in SUPPORT_KEYWORDS THEN SupportBranch(lang)
        ELSE IF state = "support_open" THEN SupportIssueBranch(lang, body_raw)
        ELSE IF body \in TRIAL_KEYWORDS THEN TrialBranch(lang)
        ELSE IF state = "awaiting_trial_contact"
             THEN TrialContactBranch(lang, body_raw)
        ELSE IF body \in OFFERS_KEYWORDS THEN OffersBranch(lang)
        ELSE IF state = "awaiting_package_choice"
             THEN PackageChoiceBranch(lang, body)
        ELSE IF StartsWith(body, Codes("buy ")) THEN BuyBranch(lang, body)
        ELSE FallbackBranch(lang)

---------------------------------------------------------------------------
(* Storage: the SQLite statements, each an atomic step on the database *)

Db(u, l, o) == [users |-> u, leads |-> l, orders |-> o]

\* upsert_user, the UPDATE arm (no row matches: nothing changes)
UpdateSeen(db, wa_number, lang) ==
    IF wa_number \in DOMAIN db.users
    THEN [db EXCEPT !.users[wa_number].lang = lang]
    ELSE db

\* upsert_user, the INSERT arm; wa_number is UNIQUE
InsertUser(db, wa_number, lang) ==
    [db EXCEPT !.users =
        (wa_number :> [lang |-> lang, state |-> None, pending_plan |-> None]) @@ @]

\* an UPDATE that writes pending_plan only when one is given
set_user_state_keep_plan(db, wa_number, state, pending_plan) ==
    IF wa_number \in DOMAIN db.users
    THEN [db EXCEPT !.users[wa_number].state = state,
                    !.users[wa_number].pending_plan =
                        IF pending_plan = None THEN @ ELSE pending_plan]
    ELSE db

set_user_state(db, wa_number, state, pending_plan) ==
    IF wa_number \in DOMAIN db.users
    THEN [db EXCEPT !.users[wa_number].state = state,
                    !.users[wa_number].pending_plan = pending_plan]
    ELSE db

\* mutant: the row is never found, the defaults are returned
get_user_state_defaults(db, wa_number) ==
    [state |-> None, pending_plan |-> None, lang |-> "en"]

get_user_state(db, wa_number) ==
    IF wa_number \notin DOMAIN db.users
    THEN [state |-> None, pending_plan |-> None, lang |-> "en"]
    ELSE [state |-> db.users[wa_number].state,
          pending_plan |-> db.users[wa_number].pending_plan,
          lang |-> db.users[wa_number].lang]

save_lead(db, wa_number, contact, source) ==
    [db EXCEPT !.leads =
        Append(@, [wa_number |-> wa_number, contact |-> contact, source |-> source])]

\* an order table keeping one row per sender: a new order replaces the old
save_order_latest(db, wa_number, plan, status) ==
    LET Others(r) == r.wa_number # wa_number
    IN  [db EXCEPT !.orders =
            Append(SelectSeq(@, Others),
                   [wa_number |-> wa_number, plan |-> plan, status |-> status])]

save_order(db, wa_number, plan, status) ==
    [db EXCEPT !.orders =
        Append(@, [wa_number |-> wa_number, plan |-> plan, status |-> status])]

\* what the tables hold about one sender
LeadsOf(db, n) ==
    LET Mine(r) == r.wa_number = n IN SelectSeq(db.leads, Mine)

OrdersOf(db, n) ==
    LET Mine(r) == r.wa_number = n IN SelectSeq(db.orders, Mine)

\* (a sender without a row reads as the defaults of a new row)
View(db, n) ==
    [known |-> n \in DOMAIN db.users,
     lang |-> IF n \in DOMAIN db.users THEN db.users[n].lang ELSE "en",
     state |-> IF n \in DOMAIN db.users THEN db.users[n].state ELSE None,
     pending_plan |->
         IF n \in DOMAIN db.users THEN db.users[n].pending_plan ELSE None,
     leads |-> LeadsOf(db, n),
     orders |-> OrdersOf(db, n)]

---------------------------------------------------------------------------
(* One webhook request: a frame, advanced one storage or network call at a time *)

\* lines 294-302: read the form, drop the request when From is missing.
\* rid numbers the requests in arrival order; pre and during record what the
\* tables held about the sender, and which requests were being handled, when
\* this one arrived; caught holds the positions in log of the calls whose
\* exception was caught and logged.
NewFrame(db, rid, during, from_value, form_body) ==
    LET body_raw == Strip(form_body)
        from_number == Remove(from_value, Codes("whatsapp:"))
    IN  [rid |-> rid,
         pc |-> IF from_number = << >> THEN "done" ELSE "upsert_select",
         from_number |-> from_number,
         body_raw |-> body_raw,
         lang |-> IF is_arabic(body_raw) THEN "ar" ELSE "en",
         found |-> FALSE,
         state |-> None,
         pending_plan |-> None,
         todo |-> << >>,
         log |-> << >>,
         caught |-> {},
         pre |-> View(db, from_number),
         during |-> during]

\* one call of the router's branch: its effect on the database
Apply(db, h, c) ==
    CASE c.op = "set_user_state" ->
           set_user_state(db, h.from_number, c.state, c.pending_plan)
      [] c.op = "save_lead" -> save_lead(db, h.from_number, c.contact, c.source)
      [] c.op = "save_order" -> save_order(db, h.from_number, c.plan, c.status)
      [] OTHER -> db

\* the next step of frame h on database db: [db, h] afterwards
Exec(db, h) ==
    CASE h.pc = "upsert_select" ->
           [db |-> db,
            h |-> [h EXCEPT !.found = h.from_number \in DOMAIN db.users,
                            !.pc = "upsert_write"]]
      [] h.pc = "upsert_write" ->
           IF h.found
           THEN [db |-> UpdateSeen(db, h.from_number, h.lang),
                 h |-> [h EXCEPT !.pc = "get_user_state"]]
           ELSE IF h.from_number \in DOMAIN db.users
           THEN [db |-> db, h |-> [h EXCEPT !.pc = "failed"]]
           ELSE [db |-> InsertUser(db, h.from_number, h.lang),
                 h |-> [h EXCEPT !.pc = "get_user_state"]]
      [] h.pc = "get_user_state" ->
           LET row == get_user_state(db, h.from_number)
           IN  [db |-> db,
                h |-> [h EXCEPT !.state = row.state,
                                !.pending_plan = row.pending_plan,
                                !.todo = Route(row.state, h.lang, h.body_raw),
                                !.pc = "route"]]
      [] h.pc = "route" ->
           [db |-> Apply(db, h, Head(h.todo)),
            h |-> [h EXCEPT !.log = Append(@, Head(h.todo)),
                            !.todo = Tail(@),
                            !.pc = IF Len(h.todo) = 1 THEN "done" ELSE "route"]]

Running(h) == h.pc \notin {"done", "failed"}

\* the next call of h goes to the database (lines 91-139): when its statement
\* fails it raises sqlite3.Error, which nothing in webhook catches
IsStorageCall(h) ==
    \/ h.pc \in {"upsert_select", "upsert_write", "get_user_state"}
    \/ /\ h.pc = "route"
       /\ Head(h.todo).op \in {"set_user_state", "save_lead", "save_order"}

\* the next call of h is wrapped in try/except (lines 145-151, 154-158)
IsGuardedCall(h) ==
    /\ h.pc = "route"
    /\ Head(h.todo).op \in {"notify_admin", "send_whatsapp"}

\* the storage call raises: the statement wrote nothing, the exception
\* leaves webhook (HTTP 500); todo keeps the call that failed at its head
ExecRaise(db, h) == [db |-> db, h |-> [h EXCEPT !.pc = "failed"]]

\* the same, were send_whatsapp and notify_admin to let the exception out
ExecCaughtUnguarded(db, h) == [db |-> db, h |-> [h EXCEPT !.pc = "failed"]]

\* the delivery or notifier call raises: the except clause logs it
\* (lines 150-151, 157-158) and the handler goes on to its next call
ExecCaught(db, h) ==
    [db |-> db,
     h |-> [Exec(db, h).h EXCEPT !.caught = @ \cup {Len(h.log) + 1}]]

\* a whole turn, run to its end with nothing in between
RECURSIVE RunTurn(_, _)
RunTurn(db, h) ==
    IF Running(h) THEN RunTurn(Exec(db, h).db, Exec(db, h).h)
    ELSE [db |-> db, h |-> h]

---------------------------------------------------------------------------
(* Inputs *)

\* the From form field
Froms == { Codes(""), Codes("whatsapp:+9711"), Codes("whatsapp:+9712") }

\* the wa_number values those give
Numbers == { Remove(f, Codes("whatsapp:")) : f \in Froms } \ { << >> }

\* the Body form field
Bodies ==
    { Codes(" Start"),                    \* menu keyword, to strip and lower
      <<1575, 1604, 1602, 1575, 1574, 1605, 1577>>,  \* "القائمة", menu keyword
      Codes("3"),                         \* support keyword
      Codes("2"),                         \* trial keyword
      Codes("1"),                         \* offers keyword
      Codes("premium"),                   \* plan alias
      Codes("I want Kids"),               \* an alias inside a sentence
      <<1603, 1610, 1583, 1586>>,         \* "كيدز", Arabic alias of kids
      Codes("buy kids"),
      Codes("buy buy kids"),
      Codes("buy xyz"),
      Codes("user@email.com"),
      Codes("+97150000000"),
      Codes("xyz") }

\* the bodies sent while another request is being handled
ConcBodies ==
    { Codes("3"), Codes("1"), Codes("premium"), Codes("xyz") }

\* the bodies sent while calls may fail: one for each branch that writes
FailBodies ==
    { Codes("start"), Codes("3"), Codes("2"), Codes("1"), Codes("premium"),
      Codes("buy kids"), Codes("user@email.com"), Codes("xyz") }

\* every alias of the catalog
AllAliases == UNION {PLAN_KEYWORDS[p] : p \in Plans}

\* the bodies sent in answer to the offers list: each alias alone, each pair
\* of aliases in one message, an alias inside other words, and no alias
ChoiceTexts ==
    AllAliases
    \cup {a \o <<32>> \o b : a \in AllAliases, b \in AllAliases}
    \cup { Codes("Kids or Premium"), Codes("casualkids"), Codes("EXECUTIVE!"),
           Codes("premiu"), Codes("xyz") }

\* the keyword tuple a body falls in
KeywordClass(body_raw) ==
    LET body == Lower(body_raw)
    IN  CASE body \in MENU_KEYWORDS -> "menu"
          [] body \in SUPPORT_KEYWORDS -> "support"
          [] body \in TRIAL_KEYWORDS -> "trial"
          [] body \in OFFERS_KEYWORDS -> "offers"
          [] OTHER -> "none"

---------------------------------------------------------------------------
(* Actions *)

DbNow == Db(users, leads, orders)

Init ==
    /\ users = << >>
    /\ leads = << >>
    /\ orders = << >>
    /\ inflight = {}
    /\ turns = 0
    /\ conv = [n \in Numbers |-> << >>]

\* POST /webhook arrives
Receive(from_value, form_body) ==
    /\ turns < MaxTurns
    /\ turns' = turns + 1
    /\ inflight' = inflight \cup {NewFrame(DbNow, turns + 1, {g.rid : g \in inflight},
                                from_value, form_body)}
    /\ UNCHANGED <<users, leads, orders, conv>>

\* the handler of request h makes its next call
Step(h) ==
    /\ Running(h)
    /\ LET r == Exec(DbNow, h)
       IN  /\ users' = r.db.users
           /\ leads' = r.db.leads
           /\ orders' = r.db.orders
           /\ inflight' = (inflight \ {h}) \cup {r.h}
    /\ UNCHANGED <<turns, conv>>

\* the handler returns ("", 200), or its exception becomes a 500
Return(h) ==
    /\ ~Running(h)
    /\ inflight' = inflight \ {h}
    /\ conv' = IF h.from_number \in Numbers
               THEN [conv EXCEPT ![h.from_number] =
                        Append(@, [kw |-> KeywordClass(h.body_raw),
                                   st |-> h.pre.state])]
               ELSE conv
    /\ UNCHANGED <<users, leads, orders, turns>>

\* one request at a time
ReceiveNext == \E f \in Froms : \E b \in Bodies : inflight = {} /\ Receive(f, b)

StepNext == \E h \in inflight : Step(h)

ReturnNext == \E h \in inflight : Return(h)

Next == ReceiveNext \/ StepNext \/ ReturnNext

Spec == Init /\ [][Next]_vars

\* requests handled by concurrent worker threads, nothing serialising them
ReceiveAny ==
    \E f \in Froms \ {Codes("")} : \E b \in ConcBodies :
        Cardinality(inflight) < MaxConcurrent /\ Receive(f, b)

NextConc == ReceiveAny \/ StepNext \/ ReturnNext

SpecConc == Init /\ [][NextConc]_vars

\* one request at a time: the offers keyword, and whatever a sender who has
\* been shown the offers list answers
ReceiveChoice ==
    \E f \in Froms \ {Codes("")} : \E b \in ChoiceTexts \cup {Codes("1")} :
        /\ inflight = {}
        /\ b \in ChoiceTexts
             <=> get_user_state(DbNow, Remove(f, Codes("whatsapp:"))).state
                    = "awaiting_package_choice"
        /\ Receive(f, b)

NextChoice == ReceiveChoice \/ StepNext \/ ReturnNext

SpecChoice == Init /\ [][NextChoice]_vars

\* a storage call of request h raises
Raise(h) ==
    /\ Running(h)
    /\ IsStorageCall(h)
    /\ inflight' = (inflight \ {h}) \cup {ExecRaise(DbNow, h).h}
    /\ UNCHANGED <<users, leads, orders, turns, conv>>

\* a delivery or notifier call of request h raises and is logged
Caught(h) ==
    /\ Running(h)
    /\ IsGuardedCall(h)
    /\ inflight' = (inflight \ {h}) \cup {ExecCaught(DbNow, h).h}
    /\ UNCHANGED <<users, leads, orders, turns, conv>>

RaiseNext == \E h \in inflight : Raise(h)

CaughtNext == \E h \in inflight : Caught(h)

ReceiveFail ==
    \E f \in Froms \ {Codes("")} : \E b \in FailBodies :
        inflight = {} /\ Receive(f, b)

\* one request at a time, every call free to fail
NextFail == ReceiveFail \/ StepNext \/ RaiseNext \/ CaughtNext \/ ReturnNext

SpecFail == Init /\ [][NextFail]_vars

---------------------------------------------------------------------------
(* Vocabulary of the claims.  A claim about "a turn" is read at the state   *)
(* in which the handler has made its last call and is about to return; the  *)
(* turn's text is t = the trimmed, lower-cased Body (spec 4.5), its prior   *)
(* state is what the tables held when the request arrived (h.pre).          *)

\* the turn of h is over and had a sender
Done(h) == h.pc = "done" /\ h.from_number # << >>

\* what the tables hold now about the sender of h
Now(h) == View(DbNow, h.from_number)

\* the text t of the turn
Text(h) == Lower(h.body_raw)

Kw(h) == KeywordClass(h.body_raw)

\* the replies the turn has sent
Replies(h) ==
    LET IsSend(c) == c.op = "send_whatsapp" IN SelectSeq(h.log, IsSend)

\* the records the turn has added for its sender (the older ones untouched)
KeptLeads(h) == SubSeq(Now(h).leads, 1, Len(h.pre.leads)) = h.pre.leads
KeptOrders(h) == SubSeq(Now(h).orders, 1, Len(h.pre.orders)) = h.pre.orders
NewLeads(h) == SubSeq(Now(h).leads, Len(h.pre.leads) + 1, Len(Now(h).leads))
NewOrders(h) == SubSeq(Now(h).orders, Len(h.pre.orders) + 1, Len(Now(h).orders))

NoLead(h) == Now(h).leads = h.pre.leads
NoOrder(h) == Now(h).orders = h.pre.orders

\* the sender's previous completed turn, if any
HasLast(n) == conv[n] # << >>
Last(n) == conv[n][Len(conv[n])]

\* the plan a text names: t is exactly one of the plan's aliases
PlanNamed(t) == FirstPlan({p \in Plans : t \in PLAN_KEYWORDS[p]})

---------------------------------------------------------------------------
(* C1: whatever the prior conversation state and pending_plan, a turn whose *)
(* text is a menu keyword ends with state NONE and pending_plan cleared and *)
(* writes no lead and no order; a menu keyword sent again right after       *)
(* leaves everything about the sender as it was (idempotent reset).         *)
C1_MenuResets ==
    \A h \in inflight :
        (Done(h) /\ Kw(h) = "menu") =>
            /\ Now(h).state = None
            /\ Now(h).pending_plan = None
            /\ NoLead(h)
            /\ NoOrder(h)
            /\ (HasLast(h.from_number) /\ Last(h.from_number).kw = "menu")
                   => [Now(h) EXCEPT !.lang = "-"] = [h.pre EXCEPT !.lang = "-"]

\* a second menu keyword in a row, the first of which reset SUPPORT_OPEN
C1_Witness ==
    \E h \in inflight :
        /\ Done(h)
        /\ Kw(h) = "menu"
        /\ HasLast(h.from_number)
        /\ Last(h.from_number) = [kw |-> "menu", st |-> "support_open"]
        /\ Now(h).state = None

(* C2: from SUPPORT_OPEN every text that is neither a menu nor a support    *)
(* keyword is recorded as exactly one lead with source=support whose        *)
(* contact is the inbound text, and the state is NONE after it; the message *)
(* after that one is not captured as a support lead.                        *)
C2_SupportCapture ==
    \A h \in inflight :
        Done(h) =>
            /\ (h.pre.state = "support_open" /\ Kw(h) \notin {"menu", "support"})
                   => /\ Now(h).leads =
                           Append(h.pre.leads,
                                  [wa_number |-> h.from_number,
                                   contact |-> h.body_raw,
                                   source |-> "support"])
                      /\ NoOrder(h)
                      /\ Now(h).state = None
            /\ ( /\ HasLast(h.from_number)
                 /\ Last(h.from_number).st = "support_open"
                 /\ Last(h.from_number).kw \notin {"menu", "support"} )
                   => /\ h.pre.state = None
                      /\ \A i \in 1..Len(NewLeads(h)) :
                             NewLeads(h)[i].source # "support"

\* a 'buy ...' command was captured as the issue, and the free text sent
\* next has been answered without a second lead
C2_Witness ==
    \E h \in inflight :
        /\ Done(h)
        /\ HasLast(h.from_number)
        /\ Last(h.from_number) = [kw |-> "none", st |-> "support_open"]
        /\ Kw(h) = "none"
        /\ Len(Now(h).leads) = 1
        /\ Now(h).leads[1].source = "support"
        /\ StartsWith(Now(h).leads[1].contact, Codes("buy "))
        /\ NoLead(h)

(* C3: from AWAITING_TRIAL_CONTACT, for a text that is no menu, support or  *)
(* trial keyword: if it matches the email-like or the phone-like pattern,   *)
(* exactly one lead with source=trial is recorded and the state becomes     *)
(* NONE; if not, the state stays AWAITING_TRIAL_CONTACT, nothing is         *)
(* recorded and the reply is the trial prompt, not the fallback.            *)
C3_TrialContact ==
    \A h \in inflight :
        ( /\ Done(h)
          /\ h.pre.state = "awaiting_trial_contact"
          /\ Kw(h) \notin {"menu", "support", "trial"} )
        => IF EmailLike(h.body_raw) \/ PhoneLike(h.body_raw)
           THEN /\ KeptLeads(h)
                /\ Len(NewLeads(h)) = 1
                /\ NewLeads(h)[1].source = "trial"
                /\ NewLeads(h)[1].wa_number = h.from_number
                /\ NoOrder(h)
                /\ Now(h).state = None
           ELSE /\ Now(h).state = "awaiting_trial_contact"
                /\ NoLead(h)
                /\ NoOrder(h)
                /\ Replies(h) = <<Send(TrialMsg(h.lang))>>

\* a text without a contact was re-prompted, then a phone number recorded
C3_Witness ==
    \E h \in inflight :
        /\ Done(h)
        /\ h.pre.state = "awaiting_trial_contact"
        /\ HasLast(h.from_number)
        /\ Last(h.from_number) = [kw |-> "none", st |-> "awaiting_trial_contact"]
        /\ PhoneLike(h.body_raw)
        /\ Len(NewLeads(h)) = 1
        /\ Now(h).state = None

(* C4, as claimed: for every prior conversation state a turn whose text is  *)
(* an offers keyword ends in AWAITING_PACKAGE_CHOICE.                       *)
C4_OffersAlways ==
    \A h \in inflight :
        (Done(h) /\ Kw(h) = "offers") => Now(h).state = "awaiting_package_choice"

(* C4, amended: an offers keyword ends in AWAITING_PACKAGE_CHOICE (with     *)
(* pending_plan cleared and nothing recorded) when the prior state is NONE  *)
(* or AWAITING_PACKAGE_CHOICE; from SUPPORT_OPEN it is captured as the      *)
(* support issue and the turn ends in NONE; from AWAITING_TRIAL_CONTACT the *)
(* turn stays in AWAITING_TRIAL_CONTACT and records nothing.                *)
C4_OffersByState ==
    \A h \in inflight :
        (Done(h) /\ Kw(h) = "offers") =>
            CASE h.pre.state = "support_open" ->
                   /\ Now(h).state = None
                   /\ Len(NewLeads(h)) = 1
                   /\ NewLeads(h)[1].source = "support"
              [] h.pre.state = "awaiting_trial_contact" ->
                   /\ Now(h).state = "awaiting_trial_contact"
                   /\ NoLead(h)
                   /\ NoOrder(h)
              [] OTHER ->
                   /\ Now(h).state = "awaiting_package_choice"
                   /\ Now(h).pending_plan = None
                   /\ NoLead(h)
                   /\ NoOrder(h)

\* offers after an order: pending_plan was set, the state was NONE
C4_Witness ==
    \E h \in inflight :
        /\ Done(h)
        /\ Kw(h) = "offers"
        /\ h.pre.state = None
        /\ h.pre.pending_plan # None
        /\ Now(h).state = "awaiting_package_choice"

(* C5: from AWAITING_PACKAGE_CHOICE, for a text that is no menu, support,   *)
(* trial or offers keyword: if it resolves to a plan, exactly one order     *)
(* (that plan, status initiated) is recorded, pending_plan is that plan and *)
(* the state becomes NONE; if it resolves to none, the state stays          *)
(* AWAITING_PACKAGE_CHOICE, pending_plan stays unset, no order is recorded  *)
(* and the reply is the choose-a-package prompt.                            *)
C5_PackageChoice ==
    \A h \in inflight :
        ( /\ Done(h)
          /\ h.pre.state = "awaiting_package_choice"
          /\ Kw(h) = "none" )
        => IF ChoosePlan(Text(h)) # None
           THEN /\ Now(h).orders =
                     Append(h.pre.orders,
                            [wa_number |-> h.from_number,
                             plan |-> ChoosePlan(Text(h)),
                             status |-> "initiated"])
                /\ Now(h).pending_plan = ChoosePlan(Text(h))
                /\ Now(h).state = None
                /\ NoLead(h)
           ELSE /\ Now(h).state = "awaiting_package_choice"
                /\ Now(h).pending_plan = None
                /\ NoOrder(h)
                /\ NoLead(h)
                /\ Replies(h) = <<Send(ChoosePlanMsg(h.lang))>>

\* an unknown text was re-prompted, then a sentence naming kids ordered it
C5_Witness ==
    \E h \in inflight :
        /\ Done(h)
        /\ h.pre.state = "awaiting_package_choice"
        /\ HasLast(h.from_number)
        /\ Last(h.from_number) = [kw |-> "none", st |-> "awaiting_package_choice"]
        /\ Text(h) \notin PLAN_KEYWORDS["kids"]
        /\ Now(h).pending_plan = "kids"
        /\ Len(NewOrders(h)) = 1

(* C6: from state NONE, 'buy <alias-or-plan-id>' records exactly one order  *)
(* for that plan with status initiated, no offers turn needed; 'buy         *)
(* <unknown>' (the text after the prefix is no alias and no plan id)        *)
(* records no order, replies with the choose-a-package prompt and leaves    *)
(* the conversation state unchanged.                                        *)
C6_DirectBuy ==
    \A h \in inflight :
        ( /\ Done(h)
          /\ h.pre.state = None
          /\ StartsWith(Text(h), Codes("buy ")) )
        => LET token == SubSeq(Text(h), Len(Codes("buy ")) + 1, Len(Text(h)))
               plan == IF PlanNamed(token) # None THEN PlanNamed(token)
                       ELSE FirstPlan({p \in Plans : token = Codes(p)})
           IN  IF plan # None
               THEN /\ Now(h).orders =
                         Append(h.pre.orders,
                                [wa_number |-> h.from_number,
                                 plan |-> plan,
                                 status |-> "initiated"])
                    /\ NoLead(h)
               ELSE /\ NoOrder(h)
                    /\ NoLead(h)
                    /\ Replies(h) = <<Send(ChoosePlanMsg(h.lang))>>
                    /\ Now(h).state = h.pre.state

(* C7: for a sender never seen before, the three turns menu keyword, offers *)
(* keyword, plan name end in state NONE with exactly one order record, for  *)
(* that plan, and no lead record of that sender.                            *)
C7_RoundTrip ==
    \A h \in inflight :
        ( /\ Done(h)
          /\ conv[h.from_number] = << [kw |-> "menu", st |-> None],
                                      [kw |-> "offers", st |-> None] >>
          /\ PlanNamed(Text(h)) # None )
        => /\ Now(h).state = None
           /\ Now(h).orders = << [wa_number |-> h.from_number,
                                  plan |-> PlanNamed(Text(h)),
                                  status |-> "initiated"] >>
           /\ Now(h).leads = << >>

\* "start", "1", "premium"
C7_Witness ==
    \E h \in inflight :
        /\ Done(h)
        /\ conv[h.from_number] = << [kw |-> "menu", st |-> None],
                                    [kw |-> "offers", st |-> None] >>
        /\ Text(h) = Codes("premium")
        /\ Len(Now(h).orders) = 1

(* C8: from state NONE a text that is in none of the four keyword tuples    *)
(* and does not start with 'buy ' leaves conversation_state and             *)
(* pending_plan as they were and writes no lead and no order.               *)
C8_FallbackFrame ==
    \A h \in inflight :
        ( /\ Done(h)
          /\ h.pre.state = None
          /\ Kw(h) = "none"
          /\ ~StartsWith(Text(h), Codes("buy ")) )
        => /\ Now(h).state = h.pre.state
           /\ Now(h).pending_plan = h.pre.pending_plan
           /\ NoLead(h)
           /\ NoOrder(h)

\* an unrecognised text after an order: pending_plan is set and stays
C8_Witness ==
    \E h \in inflight :
        /\ Done(h)
        /\ h.pre.state = None
        /\ h.pre.pending_plan # None
        /\ Kw(h) = "none"
        /\ ~StartsWith(Text(h), Codes("buy "))
        /\ Replies(h) = <<Send(FallbackMsg(h.lang))>>

(* C9: for every prior state a turn whose text is a support keyword ends in *)
(* SUPPORT_OPEN with pending_plan cleared and records no lead, also when    *)
(* the prior state was SUPPORT_OPEN: the keyword is never captured as the   *)
(* issue text.                                                              *)
C9_SupportEntry ==
    \A h \in inflight :
        (Done(h) /\ Kw(h) = "support") =>
            /\ Now(h).state = "support_open"
            /\ Now(h).pending_plan = None
            /\ NoLead(h)

\* the support keyword sent while support mode is already on
C9_Witness ==
    \E h \in inflight :
        /\ Done(h)
        /\ Kw(h) = "support"
        /\ h.pre.state = "support_open"
        /\ Now(h).state = "support_open"

---------------------------------------------------------------------------
(* C10: turns of one sender are serialised: when two messages of a sender   *)
(* are handled concurrently, the conversation state and the lead and order  *)
(* records that result are those of handling the two one after the other,   *)
(* in one order or the other.                                               *)

\* the request of h as it arrives at database db
Arrive(db, h) ==
    [h EXCEPT !.pc = "upsert_select", !.found = FALSE, !.state = None,
              !.pending_plan = None, !.todo = << >>, !.log = << >>, !.caught = {},
              !.pre = View(db, h.from_number)]

\* the tables after the turn of a, then the turn of b, each run alone
Serial(db, a, b) ==
    LET mid == RunTurn(db, Arrive(db, a)).db
    IN  RunTurn(mid, Arrive(mid, b)).db

\* the sender's part of the tables, rebuilt from a snapshot
DbOf(n, v) ==
    Db(IF v.known
       THEN (n :> [lang |-> v.lang, state |-> v.state,
                   pending_plan |-> v.pending_plan])
       ELSE << >>,
       v.leads, v.orders)

Count(seq, r) == Cardinality({i \in 1..Len(seq) : seq[i] = r})

SameRecords(s1, s2) ==
    /\ Len(s1) = Len(s2)
    /\ \A i \in 1..Len(s1) : Count(s1, s1[i]) = Count(s2, s1[i])

\* same conversation state, same lead and order records
SameOutcome(v, w) ==
    /\ v.state = w.state
    /\ SameRecords(v.leads, w.leads)
    /\ SameRecords(v.orders, w.orders)

\* b arrived while a, which had arrived with nothing else running, was
\* being handled; no request arrived after b
Overlapped(a, b) ==
    /\ Done(a)
    /\ Done(b)
    /\ a.from_number = b.from_number
    /\ a.during = {}
    /\ b.during = {a.rid}
    /\ turns = b.rid

C10_Serializable ==
    \A a \in inflight : \A b \in inflight :
        Overlapped(a, b) =>
            LET n == a.from_number
                db0 == DbOf(n, a.pre)
            IN  \/ SameOutcome(Now(a), View(Serial(db0, a, b), n))
                \/ SameOutcome(Now(a), View(Serial(db0, b, a), n))

---------------------------------------------------------------------------
(* C11: upsert_user never fails for a non-empty sender: no request with a   *)
(* sender ends in a storage error, also when two first-contact messages of  *)
(* one unseen sender are handled concurrently, and every request that got   *)
(* past upsert_user finds exactly one users row of its sender.              *)
C11_UpsertNeverFails ==
    \A h \in inflight :
        h.from_number # << >> =>
            /\ h.pc # "failed"
            /\ h.pc \in {"get_user_state", "route", "done"}
                   => h.from_number \in DOMAIN users

---------------------------------------------------------------------------
(* Turns in which a call fails *)

\* the turn of h ended in a storage error
StorageFailed(h) ==
    /\ h.pc = "failed"
    /\ \/ h.todo = << >>
       \/ Head(h.todo).op \in {"set_user_state", "save_lead", "save_order"}

\* the storage error of h came from save_lead or save_order
RecorderFailed(h) ==
    /\ h.pc = "failed"
    /\ h.todo # << >>
    /\ Head(h.todo).op \in {"save_lead", "save_order"}

\* the turn of h, run alone on what the tables held about its sender when
\* it arrived, with no call failing
Undisturbed(h) ==
    LET db0 == DbOf(h.from_number, h.pre)
    IN  RunTurn(db0, Arrive(db0, h))

(* C12: when save_lead or save_order fails during a turn, the turn has sent *)
(* no reply and the sender's state and pending_plan are what they were      *)
(* before the turn, not advanced as though the record had been written.     *)
C12_RecorderFailure ==
    \A h \in inflight :
        RecorderFailed(h) =>
            /\ Replies(h) = << >>
            /\ Now(h).state = h.pre.state
            /\ Now(h).pending_plan = h.pre.pending_plan

(* C13: a delivery or notifier call that fails changes nothing about the    *)
(* turn: every turn that ends without a storage error leaves the sender's   *)
(* state, pending_plan, leads and orders as the same turn does when no call *)
(* fails, and has made the same calls, each once (nothing rolled back,      *)
(* nothing skipped, nothing retried).                                       *)
C13_BestEffortCalls ==
    \A h \in inflight :
        (~Running(h) /\ h.from_number # << >> /\ ~StorageFailed(h)) =>
            /\ Now(h) = View(Undisturbed(h).db, h.from_number)
            /\ h.log = Undisturbed(h).h.log

\* an offers turn whose delivery failed before the state write, and which
\* went on to write AWAITING_PACKAGE_CHOICE
C13_Witness ==
    \E h \in inflight :
        /\ Done(h)
        /\ Kw(h) = "offers"
        /\ h.pre.state = None
        /\ h.caught = {1}
        /\ Now(h).state = "awaiting_package_choice"

\* an order turn whose notifier call and delivery both failed
C13_WitnessOrder ==
    \E h \in inflight :
        /\ Done(h)
        /\ Cardinality(h.caught) = 2
        /\ Len(NewOrders(h)) = 1
        /\ Now(h).pending_plan = NewOrders(h)[1].plan

---------------------------------------------------------------------------
(* Languages of a reply *)

\* the constants of message m written in language l, in order
InLang(m, l) ==
    LET Is(x) == x.l = l
        of == SelectSeq(m, Is)
    IN  [i \in 1..Len(of) |-> [c |-> of[i].c, p |-> of[i].p]]

\* where in m the text in language l stands
At(m, l) == {i \in 1..Len(m) : m[i].l = l}

\* m is the text in lang followed by the other language's rendering of it
EchoedIn(m, lang) ==
    /\ At(m, lang) # {}
    /\ InLang(m, lang) = InLang(m, Other(lang))
    /\ \A i \in At(m, lang) : \A j \in At(m, Other(lang)) : i < j

\* m is one of the two messages composed as a fixed block
FixedBlock(m) == \E i \in 1..Len(m) : m[i].c \in {"SUPPORT_THANKS", "TRIAL_RECEIVED"}

(* C14: every reply is the detected language's text followed by the other   *)
(* language's rendering of the same message, except the support-thanks and  *)
(* the trial-confirmation replies, which hold both languages as a fixed     *)
(* block.                                                                   *)
C14_BilingualReplies ==
    \A h \in inflight :
        \A i \in 1..Len(Replies(h)) :
            LET m == Replies(h)[i].body
            IN  IF FixedBlock(m)
                THEN At(m, "en") # {} /\ At(m, "ar") # {}
                ELSE EchoedIn(m, h.lang)

---------------------------------------------------------------------------
IsPrefix(s1, s2) == Len(s1) <= Len(s2) /\ SubSeq(s2, 1, Len(s1)) = s1

(* C15: leads and orders are append-only: no step of any turn of any sender *)
(* changes or removes a record that exists, and every order record has      *)
(* status initiated and a plan among premium, executive, casual, kids.      *)
C15_AppendOnly ==
    /\ [](\A i \in 1..Len(orders) :
             orders[i].status = "initiated" /\ orders[i].plan \in Plans)
    /\ [][IsPrefix(leads, leads') /\ IsPrefix(orders, orders')]_vars

\* a turn has added an order to tables that held a record of its sender
C15_Witness ==
    \E h \in inflight :
        /\ Done(h)
        /\ Len(NewOrders(h)) = 1
        /\ h.pre.orders # << >> \/ h.pre.leads # << >>

---------------------------------------------------------------------------
\* the place of a call in the order recorder, notifier, state write, reply
Rank(c) ==
    CASE c.op \in {"save_lead", "save_order"} -> 1
      [] c.op = "notify_admin" -> 2
      [] c.op = "set_user_state" -> 3
      [] c.op = "send_whatsapp" -> 4

(* C16: within a turn, after the state load, the calls come in the order    *)
(* recorder, notifier, state write, reply: the state write never precedes   *)
(* the recorder or the notifier call, the reply never precedes the state    *)
(* write.                                                                   *)
C16_SideEffectOrder ==
    \A h \in inflight :
        /\ h.log # << >> => h.pc \in {"route", "done", "failed"}
        /\ \A i \in 1..Len(h.log) : \A j \in i..Len(h.log) :
               Rank(h.log[i]) <= Rank(h.log[j])

---------------------------------------------------------------------------
\* how many calls of the kinds in ops the turn of h has made
Calls(h, ops) ==
    LET Is(c) == c.op \in ops IN Len(SelectSeq(h.log, Is))

\* a request without a sender is in flight before or after the step
Dropping ==
    \/ \E h \in inflight : h.from_number = << >>
    \/ \E h \in inflight' : h.from_number = << >>

(* C17: a completed turn with a sender has attempted exactly one reply, has *)
(* made at most one recorder call and at most one notifier call, and has    *)
(* called the notifier exactly when it recorded a lead or an order; a       *)
(* request without a sender makes no call at all and neither its arrival    *)
(* nor its return changes a table.                                          *)
C17_OneReplyPerTurn ==
    /\ [](\A h \in inflight :
             /\ Done(h) =>
                   /\ Calls(h, {"send_whatsapp"}) = 1
                   /\ Calls(h, {"save_lead", "save_order"}) <= 1
                   /\ Calls(h, {"notify_admin"}) <= 1
                   /\ Calls(h, {"notify_admin"}) = 1
                         <=> Len(NewLeads(h)) + Len(NewOrders(h)) = 1
                   /\ Len(NewLeads(h)) + Len(NewOrders(h))
                         = Calls(h, {"save_lead", "save_order"})
             /\ h.from_number = << >> => h.log = << >> /\ ~Running(h))
    /\ [][Dropping => UNCHANGED <<users, leads, orders, conv>>]_vars

\* the third request is a direct buy that recorded, notified and replied
\* once; one of the two requests before it had no sender and was dropped
C17_Witness ==
    \E h \in inflight :
        /\ Done(h)
        /\ h.rid = 3
        /\ Len(conv[h.from_number]) = 1
        /\ \A n \in Numbers \ {h.from_number} : conv[n] = << >>
        /\ StartsWith(Text(h), Codes("buy "))
        /\ Len(NewOrders(h)) = 1
        /\ Calls(h, {"notify_admin"}) = 1
        /\ Calls(h, {"send_whatsapp"}) = 1

---------------------------------------------------------------------------
\* the plans one of whose aliases is t, and those with an alias inside t
ExactPlans(t) == {p \in Plans : t \in PLAN_KEYWORDS[p]}
ContainedPlans(t) == {p \in Plans : \E a \in PLAN_KEYWORDS[p] : Contains(t, a)}

\* the reference rule: an exact match if there is one, else the first plan
\* in catalog order with an alias inside t, else none
RefPlan(t) ==
    IF ExactPlans(t) # {} THEN FirstPlan(ExactPlans(t))
    ELSE FirstPlan(ContainedPlans(t))

\* the plan the turn of h resolved its text to: the plan it ordered
Resolved(h) == IF NewOrders(h) = << >> THEN None ELSE NewOrders(h)[1].plan

PlanIndex(p) == CHOOSE i \in 1..Len(PlanOrder) : PlanOrder[i] = p

(* C18: in AWAITING_PACKAGE_CHOICE a text (no keyword) resolves to the plan *)
(* of the reference rule: the plan with that exact alias if there is one,   *)
(* else the first of premium, executive, casual, kids with an alias inside  *)
(* the text, else none; a text holding aliases of several plans resolves to *)
(* the earliest of them.                                                    *)
C18_AliasResolution ==
    \A h \in inflight :
        (Done(h) /\ h.pre.state = "awaiting_package_choice" /\ Kw(h) = "none")
        => /\ Resolved(h) = RefPlan(Text(h))
           /\ Now(h).pending_plan = RefPlan(Text(h))
           /\ \A p \in ContainedPlans(Text(h)) :
                  PlanIndex(Resolved(h)) <= PlanIndex(p)

\* a message naming kids, then premium, in Arabic: premium is ordered
C18_Witness ==
    \E h \in inflight :
        /\ Done(h)
        /\ h.pre.state = "awaiting_package_choice"
        /\ h.lang = "ar"
        /\ ContainedPlans(Text(h)) = {"kids", "premium"}
        /\ \E a \in PLAN_KEYWORDS["kids"] : StartsWith(Text(h), a)
        /\ Resolved(h) = "premium"

---------------------------------------------------------------------------
\* the text after the one leading "buy "
AfterBuy(t) == SubSeq(t, Len(Codes("buy ")) + 1, Len(t))

(* C19: the buy command removes only the leading 'buy ' and matches the     *)
(* rest exactly: a turn from state NONE whose text starts with 'buy '       *)
(* records an order if and only if the text after that one prefix is        *)
(* exactly an alias or a catalog plan id.                                   *)
C19_BuyExactRemainder ==
    \A h \in inflight :
        (Done(h) /\ h.pre.state = None /\ StartsWith(Text(h), Codes("buy ")))
        => ( NewOrders(h) # << >>
               <=> \/ AfterBuy(Text(h)) \in AllAliases
                   \/ \E p \in Plans : AfterBuy(Text(h)) = PLAN_PAY_URL_KEYS[p] )

---------------------------------------------------------------------------
(* C20: between turns handled one at a time without a storage error, for    *)
(* every sender: pending_plan is set only while the state is NONE, and when *)
(* it is set the sender has an order record for that plan.                  *)
C20_PendingPlanBacked ==
    inflight = {} =>
        \A n \in DOMAIN users :
            users[n].pending_plan # None =>
                /\ users[n].state = None
                /\ \E i \in 1..Len(orders) :
                       /\ orders[i].wa_number = n
                       /\ orders[i].plan = users[n].pending_plan

\* a sender chose a plan and has since ordered another one with buy:
\* pending_plan still names the first, which has its order record
C20_Witness ==
    /\ inflight = {}
    /\ \E n \in DOMAIN users :
           /\ users[n].pending_plan # None
           /\ Len(OrdersOf(DbNow, n)) = 2
           /\ OrdersOf(DbNow, n)[2].plan # users[n].pending_plan

===========================================================================
